---- MODULE Spec2Model ----
(***************************************************************************)
(* GLRECS bot (GLRECS-BOT/GLRECS.py): one invocation lists the subfolders  *)
(* of a Drive folder, picks the first shuffled folder that holds an image  *)
(* and a text file, downloads it under ./GLRECS_temp/<name> and tweets one *)
(* image with alt text taken from a description file.                      *)
(*                                                                         *)
(* Names and file contents are sequences of one-character strings, so that *)
(* lower(), endswith(), strip(), split('.') and slicing are computed.      *)
(***************************************************************************)
EXTENDS Integers, Sequences, FiniteSets, TLC

\* ---------------------------------------------------------------- bounds
MaxFolders == 2        \* subfolders of the parent Drive folder
MaxFiles == 3          \* children of one subfolder
MaxRuns == 2           \* invocations of the script sharing ./GLRECS_temp
FoldersPageSize == 1   \* stands for pageSize=500 of list_drive_folders
FilesPageSize == 2     \* stands for the API's default page size (100)

\* ------------------------------------------------------- program constants
NoToken == 0           \* page_token = None
AltTextMax == 100      \* content[:100]

None == "None"
RootId == "root"

\* ----------------------------------------------------------------- strings
UpperChars ==
  <<"A", "B", "C", "D", "E", "F", "G", "H", "I", "J", "K", "L", "M",
    "N", "O", "P", "Q", "R", "S", "T", "U", "V", "W", "X", "Y", "Z">>
LowerChars ==
  <<"a", "b", "c", "d", "e", "f", "g", "h", "i", "j", "k", "l", "m",
    "n", "o", "p", "q", "r", "s", "t", "u", "v", "w", "x", "y", "z">>

\* str.lower() on one character
LowerChar(c) ==
  IF \E i \in 1..Len(UpperChars) : UpperChars[i] = c
  THEN LowerChars[CHOOSE i \in 1..Len(UpperChars) : UpperChars[i] = c]
  ELSE c

\* str.lower()
Lower(s) == [i \in 1..Len(s) |-> LowerChar(s[i])]

\* str.endswith(suffix) for one suffix
EndsWith(s, suf) ==
  /\ Len(suf) <= Len(s)
  /\ SubSeq(s, Len(s) - Len(suf) + 1, Len(s)) = suf

\* str.endswith(tuple): true when any suffix of the tuple matches
EndsWithAny(s, sufs) == \E suf \in sufs : EndsWith(s, suf)

\* str.startswith(prefix)
StartsWith(s, pre) ==
  /\ Len(pre) <= Len(s)
  /\ SubSeq(s, 1, Len(pre)) = pre

Whitespace == {" ", "\t", "\n"}

\* the first position at or after i that holds no whitespace (Len(s)+1: none)
RECURSIVE SkipLeft(_, _)
SkipLeft(s, i) ==
  IF i > Len(s) \/ s[i] \notin Whitespace THEN i ELSE SkipLeft(s, i + 1)

\* the last position at or before i that holds no whitespace (0: none)
RECURSIVE SkipRight(_, _)
SkipRight(s, i) ==
  IF i < 1 \/ s[i] \notin Whitespace THEN i ELSE SkipRight(s, i - 1)

\* str.strip()
Strip(s) == SubSeq(s, SkipLeft(s, 1), SkipRight(s, Len(s)))

\* '.' in content
HasDot(s) == \E i \in 1..Len(s) : s[i] = "."

\* the position of the first '.' at or after i (Len(s)+1: none)
RECURSIVE FindDot(_, _)
FindDot(s, i) == IF i > Len(s) \/ s[i] = "." THEN i ELSE FindDot(s, i + 1)

\* content.split('.')[0]
SplitDotFirst(s) == SubSeq(s, 1, FindDot(s, 1) - 1)

\* content[:n]
Prefix(s, n) == SubSeq(s, 1, IF Len(s) < n THEN Len(s) ELSE n)

\* os.path.splitext(path)[0]: the name up to its last dot, unless that dot
\* only follows leading dots (then the name has no extension)
SplitextRoot(s) ==
  LET dots == {i \in 1..Len(s) : s[i] = "."}
  IN IF dots = {} THEN s
     ELSE LET last == CHOOSE i \in dots : \A j \in dots : j <= i
          IN IF \A j \in 1..(last - 1) : s[j] = "." THEN s
             ELSE SubSeq(s, 1, last - 1)

\* ------------------------------------------------------------ configuration
supported_formats == {
    <<".", "j", "p", "g">>, <<".", "j", "p", "e", "g">>, <<".", "p", "n", "g">>,
    <<".", "w", "e", "b", "p">>, <<".", "g", "i", "f">>, <<".", "b", "m", "p">>,
    <<".", "t", "i", "f", "f">>, <<".", "s", "v", "g">>, <<".", "h", "e", "i", "f">>,
    <<".", "i", "c", "o">>, <<".", "r", "a", "w">>, <<".", "j", "f", "i", "f">>,
    <<".", "e", "x", "i", "f">>, <<".", "d", "n", "g">>, <<".", "w", "e", "e", "p">>,
    <<".", "m", "p", "4">>, <<".", "a", "v", "i">>, <<".", "m", "o", "v">>,
    <<".", "w", "m", "v">>, <<".", "m", "k", "v">>, <<".", "f", "l", "v">>,
    <<".", "w", "e", "b", "m">>, <<".", "g", "i", "f", "v">>, <<".", "m", "p", "3">>,
    <<".", "w", "a", "v">>, <<".", "a", "a", "c">>, <<".", "o", "g", "g">> }

supported_text_extensions == {
    <<".", "t", "x", "t">>, <<".", "r", "t", "f">>, <<".", "d", "o", "c">>,
    <<".", "d", "o", "c", "x">>, <<".", "p", "d", "f">>, <<".", "o", "d", "t">>,
    <<".", "m", "a", "r", "k", "d", "o", "w", "n">>, <<".", "c", "s", "v">>,
    <<".", "h", "t", "m", "l">>, <<".", "x", "m", "l">>, <<".", "j", "s", "o", "n">> }

\* f['name'].lower().endswith(supported_formats), and the same test with
\* lower() left out
NoLowerIsImage(name) == EndsWithAny(name, supported_formats)
IsImage(name) == EndsWithAny(Lower(name), supported_formats)

\* f['name'].lower().endswith(supported_text_extensions), and the same test
\* with lower() left out
NoLowerIsText(name) == EndsWithAny(name, supported_text_extensions)
IsText(name) == EndsWithAny(Lower(name), supported_text_extensions)

\* export_mime_types of download_file_from_drive
GDoc == "application/vnd.google-apps.document"
GSheet == "application/vnd.google-apps.spreadsheet"
GSlides == "application/vnd.google-apps.presentation"
GDrawing == "application/vnd.google-apps.drawing"
DocxMime == "application/vnd.openxmlformats-officedocument.wordprocessingml.document"

export_mime_types ==
  [m \in {GDoc, GSheet, GSlides, GDrawing} |->
     CASE m = GDoc -> DocxMime
       [] m = GSheet -> "text/csv"
       [] m = GSlides -> "application/pdf"
       [] m = GDrawing -> "image/png"]

\* extension_map.get(export_mime, '.txt')
extension_map(export_mime) ==
  CASE export_mime = DocxMime -> <<".", "d", "o", "c", "x">>
    [] export_mime = "text/csv" -> <<".", "c", "s", "v">>
    [] export_mime = "application/pdf" -> <<".", "p", "d", "f">>
    [] export_mime = "image/png" -> <<".", "p", "n", "g">>
    [] OTHER -> <<".", "t", "x", "t">>

\* the local path download_file_from_drive writes for a remote file
DestinationName(name, mime) ==
  IF mime \in DOMAIN export_mime_types
  THEN SplitextRoot(name) \o extension_map(export_mime_types[mime])
  ELSE name

\* ------------------------------------------------------------ remote Drive
\* The files that may exist on the Drive: id, name, mimeType. The third is a
\* Google Docs document, which download_file_from_drive exports.
Catalog ==
  <<[id |-> 1, name |-> <<"I", "M", "A", "G", "E", ".", "P", "N", "G">>,
     mimeType |-> "image/png"],
    [id |-> 2, name |-> <<"D", "E", "S", "C", "R", "I", "P", ".", "T", "X", "T">>,
     mimeType |-> "text/plain"],
    [id |-> 3, name |-> <<"d", "e", "s", "c", "r", "i", "p", "t", "i", "o", "n",
                          ".", "d", "o", "c", "x">>,
     mimeType |-> GDoc],
    [id |-> 4, name |-> <<"n", "o", "t", "d", "e", "s", "c", ".", "t", "x", "t">>,
     mimeType |-> "text/plain"]>>

FileIds == 1..Len(Catalog)
FolderNames == {"A", "B"}

\* every ordering of a finite set
Perms(S) ==
  {p \in [1..Cardinality(S) -> S] : \A i, j \in DOMAIN p : p[i] = p[j] => i = j}

\* the sequences of at most n distinct elements of S
DistinctSeqs(S, n) ==
  UNION {Perms(T) : T \in {U \in SUBSET S : Cardinality(U) <= n}}

\* the file resource the API returns for a child: files(id, name, mimeType)
FileResource(fid) ==
  [id |-> fid, name |-> Catalog[fid].name, mimeType |-> Catalog[fid].mimeType]

\* one files().list(...).execute(): the page starting at pageToken, with the
\* continuation token when more items remain, restricted to the requested
\* fields (a field that was not requested is not in the response)
FilesListExecute(items, fields, pageSize, pageToken) ==
  LET start == IF pageToken = NoToken THEN 1 ELSE pageToken
      stop == IF start + pageSize - 1 < Len(items)
              THEN start + pageSize - 1 ELSE Len(items)
      full == IF stop < Len(items)
              THEN [files |-> SubSeq(items, start, stop), nextPageToken |-> stop + 1]
              ELSE [files |-> SubSeq(items, start, stop)]
  IN [k \in (DOMAIN full) \cap fields |-> full[k]]

\* results.get(key, default)
ResultsGet(results, key, default) ==
  IF key \in DOMAIN results THEN results[key] ELSE default

\* the while True loop of list_drive_folders / list_drive_files: the items
\* collected and the number of requests made
RECURSIVE ListPages(_, _, _, _, _, _)
ListPages(items, fields, pageSize, page_token, acc, requests) ==
  LET results == FilesListExecute(items, fields, pageSize, page_token)
      got == acc \o ResultsGet(results, "files", <<>>)
      next == ResultsGet(results, "nextPageToken", NoToken)
  IN IF next = NoToken
     THEN [files |-> got, requests |-> requests + 1]
     ELSE ListPages(items, fields, pageSize, next, got, requests + 1)

\* fields="nextPageToken, files(id, name)", pageSize=500
list_drive_folders(items) ==
  ListPages(items, {"nextPageToken", "files"}, FoldersPageSize, NoToken, <<>>, 0)

\* fields="files(id, name, mimeType)", default page size
list_drive_files(items) ==
  ListPages(items, {"files"}, FilesPageSize, NoToken, <<>>, 0)

\* ------------------------------------------------------- description parser
Fallback ==
  [alt |-> <<"S", "a", "p", "p", "h", "i", "c", " ", "R", "e", "c", "o", "m",
             "m", "e", "n", "d", "a", "t", "i", "o", "n">>,
   full |-> <<"N", "o", " ", "d", "e", "s", "c", "r", "i", "p", "t", "i", "o",
              "n", " ", "a", "v", "a", "i", "l", "a", "b", "l", "e", ".">>]

Unreadable == <<"<unreadable>">>

\* get_alt_text_from_description on the text the file holds; Unreadable is
\* a file whose open/read/decode raises
get_alt_text_from_description(text) ==
  IF text = Unreadable THEN Fallback
  ELSE LET content == Strip(text)
       IN IF content = <<>> THEN Fallback
          ELSE LET alt_text == IF HasDot(content) THEN SplitDotFirst(content)
                               ELSE Prefix(content, AltTextMax)
               IN [alt |-> Strip(alt_text), full |-> content]

RECURSIVE Repeat(_, _)
Repeat(c, n) == IF n = 0 THEN <<>> ELSE <<c>> \o Repeat(c, n - 1)

\* what a description file may hold
Contents ==
  { <<>>,
    <<"H", "e", "l", "l", "o", " ", "w", "o", "r", "l", "d", ".", " ", "M", "o",
      "r", "e", " ", "t", "e", "x", "t", " ", "h", "e", "r", "e", ".">>,
    <<" ", ".", " ", "H", "i">>,
    <<"N", "o", " ", "d", "o", "t", "\n">>,
    Repeat("a", AltTextMax + 1),
    Unreadable }

\* -------------------------------------------------------------------- state
VARIABLES
  drive,             \* remote: the non-trashed subfolders of the parent folder,
                     \* each with its non-trashed children in the API's order
  localFs,           \* ./GLRECS_temp: folder name -> the files in that directory
  posts,             \* the tweets this invocation has created
  run,               \* number of the current invocation
  pc,                \* position of the current invocation
  DRIVE_FOLDER_ID,   \* os.getenv('DRIVE_FOLDER_ID')
  folders,           \* tweet_random_images: folders
  idx,               \* select_valid_drive_folder: position of the for loop
  valid_folder,      \* tweet_random_images: valid_folder
  files,             \* the listing the current loop iterates over
  didx,              \* download_drive_folder: position of the for loop
  selected_image,    \* tweet_images_from_folder: selected_image
  description_file,  \* tweet_images_from_folder: descriptions[0]
  alt_text,          \* tweet_images_from_folder: alt_text
  full_text,         \* tweet_images_from_folder: full_text
  upload_signal,     \* what api.media_upload answered in this invocation
  tweet_result,      \* return value of tweet_images_from_folder
  calls,             \* the external calls this invocation has made, in order
  exc                \* the exception that ended the invocation, if any

vars ==
  <<drive, localFs, posts, run, pc, DRIVE_FOLDER_ID, folders, idx, valid_folder,
    files, didx, selected_image, description_file, alt_text, full_text,
    upload_signal, tweet_result, calls, exc>>

tweetVars ==
  <<selected_image, description_file, alt_text, full_text, upload_signal,
    tweet_result>>

\* a subfolder of the parent folder: its display name and its children
FolderStates == [name : FolderNames, children : DistinctSeqs(FileIds, MaxFiles)]

\* a subfolder holding exactly one image and one text file
UsableFolderStates ==
  {f \in FolderStates :
     /\ Len(f.children) = 2
     /\ \E j \in 1..2 : EndsWithAny(Lower(Catalog[f.children[j]].name),
                                    supported_formats)
     /\ \E j \in 1..2 : EndsWithAny(Lower(Catalog[f.children[j]].name),
                                    supported_text_extensions)}

\* the folder resource the API returns: files(id, name); the id is the position
FolderResource(i) == [id |-> i, name |-> drive[i].name]

Call(op, arg) == [op |-> op, arg |-> arg]

\* a file of ./GLRECS_temp/<folder name>: its name, the remote file and folder
\* it was downloaded from, the invocation that wrote it, and whether the
\* download completed
LocalFile(name, fid, folder, r, complete) ==
  [name |-> name, fid |-> fid, folder |-> folder, run |-> r, complete |-> complete]

\* open(path, 'wb') and write: the file at that path is replaced
WriteFile(dir, f) == {g \in dir : g.name # f.name} \cup {f}

\* valid_folder = None, and a local variable that is not yet bound
NoFolder == [id |-> 0, name |-> None]
NoFile == LocalFile(<<>>, 0, 0, 0, FALSE)

\* the state of a freshly started process (module level, before line 16)
FreshRun ==
  /\ pc' = "start"
  /\ DRIVE_FOLDER_ID' = None
  /\ folders' = <<>>
  /\ idx' = 0
  /\ valid_folder' = NoFolder
  /\ files' = <<>>
  /\ didx' = 0
  /\ selected_image' = NoFile
  /\ description_file' = NoFile
  /\ alt_text' = <<>>
  /\ full_text' = <<>>
  /\ upload_signal' = None
  /\ tweet_result' = None
  /\ posts' = <<>>
  /\ calls' = <<>>
  /\ exc' = None

\* the first invocation starts, on a Drive of at most maxFolders subfolders
\* drawn from folderStates and an empty ./GLRECS_temp
InitOn(folderStates, maxFolders) ==
  /\ \E n \in 0..maxFolders : drive \in [1..n -> folderStates]
  /\ localFs = [n \in FolderNames |-> {}]
  /\ posts = <<>>
  /\ run = 1
  /\ pc = "start"
  /\ DRIVE_FOLDER_ID = None
  /\ folders = <<>>
  /\ idx = 0
  /\ valid_folder = NoFolder
  /\ files = <<>>
  /\ didx = 0
  /\ selected_image = NoFile
  /\ description_file = NoFile
  /\ alt_text = <<>>
  /\ full_text = <<>>
  /\ upload_signal = None
  /\ tweet_result = None
  /\ calls = <<>>
  /\ exc = None

Init == InitOn(FolderStates, MaxFolders)

\* ------------------------------------------------------------------ actions
\* Lines 16-61: load the environment, build the Drive service and the Twitter
\* clients; either initialisation may fail, and then the process exits with 1.
ModuleInit ==
  /\ pc = "start"
  /\ \E id \in {None, RootId}, outcome \in {"ok", "drive_failed", "twitter_failed"} :
       /\ DRIVE_FOLDER_ID' = id
       /\ pc' = IF outcome = "ok" THEN "main" ELSE "exit1"
  /\ UNCHANGED <<drive, localFs, posts, run, folders, idx, valid_folder, files,
                 didx, calls, exc>>
  /\ UNCHANGED tweetVars

\* Line 219, list_drive_folders(DRIVE_FOLDER_ID). No check of DRIVE_FOLDER_ID
\* precedes the request: an unset identifier is sent as the parent 'None',
\* which has no children (or makes the request fail). A failed request raises
\* out of main().
ListFolders ==
  /\ pc = "main"
  /\ \E raises \in BOOLEAN :
       LET items == IF DRIVE_FOLDER_ID = None THEN <<>>
                    ELSE [i \in 1..Len(drive) |-> FolderResource(i)]
           listed == list_drive_folders(items)
       IN IF raises
          THEN /\ calls' = Append(calls, Call("folders.list", DRIVE_FOLDER_ID))
               /\ exc' = "HttpError"
               /\ pc' = "crashed"
               /\ UNCHANGED folders
          ELSE /\ calls' = calls \o Repeat(Call("folders.list", DRIVE_FOLDER_ID),
                                          listed.requests)
               /\ folders' = listed.files
               /\ pc' = "shuffle"
               /\ UNCHANGED exc
  /\ UNCHANGED <<drive, localFs, posts, run, DRIVE_FOLDER_ID, idx, valid_folder,
                 files, didx>>
  /\ UNCHANGED tweetVars

\* Line 116, random.shuffle(folders): any order.
Shuffle ==
  /\ pc = "shuffle"
  /\ \E p \in Perms(1..Len(folders)) :
       folders' = [i \in 1..Len(folders) |-> folders[p[i]]]
  /\ idx' = 1
  /\ pc' = "validate"
  /\ UNCHANGED <<drive, localFs, posts, run, DRIVE_FOLDER_ID, valid_folder, files,
                 didx, calls, exc>>
  /\ UNCHANGED tweetVars

has_image(listing) == \E i \in 1..Len(listing) : IsImage(listing[i].name)
has_text(listing) == \E i \in 1..Len(listing) : IsText(listing[i].name)

\* the listing list_drive_files(folder_id) returns for a folder of the Drive
ListedFiles(folder_id) ==
  LET children == drive[folder_id].children
  IN list_drive_files([i \in 1..Len(children) |-> FileResource(children[i])])

\* Lines 117-125: one iteration of the for loop of select_valid_drive_folder,
\* or its end.
Validate ==
  /\ pc = "validate"
  /\ IF idx > Len(folders)
     THEN /\ valid_folder' = NoFolder
          /\ pc' = "done"
          /\ UNCHANGED <<idx, files, calls, exc>>
     ELSE \E raises \in BOOLEAN :
            LET listed == ListedFiles(folders[idx].id)
            IN IF raises
               THEN /\ calls' = Append(calls, Call("files.list", folders[idx].id))
                    /\ exc' = "HttpError"
                    /\ pc' = "crashed"
                    /\ UNCHANGED <<idx, files, valid_folder>>
               ELSE /\ calls' = calls \o Repeat(Call("files.list", folders[idx].id),
                                               listed.requests)
                    /\ files' = listed.files
                    /\ UNCHANGED exc
                    /\ IF has_image(listed.files) /\ has_text(listed.files)
                       THEN /\ valid_folder' = folders[idx]
                            /\ pc' = "download"
                            /\ UNCHANGED idx
                       ELSE /\ idx' = idx + 1
                            /\ UNCHANGED <<valid_folder, pc>>
  /\ UNCHANGED <<drive, localFs, posts, run, DRIVE_FOLDER_ID, folders, didx>>
  /\ UNCHANGED tweetVars

\* Lines 129-132 of download_drive_folder: make the directory and list the
\* folder again (a failed request raises out of main()).
DownloadList ==
  /\ pc = "download"
  /\ \E raises \in BOOLEAN :
       LET listed == ListedFiles(valid_folder.id)
       IN IF raises
          THEN /\ calls' = Append(calls, Call("files.list", valid_folder.id))
               /\ exc' = "HttpError"
               /\ pc' = "crashed"
               /\ UNCHANGED <<files, didx>>
          ELSE /\ calls' = calls \o Repeat(Call("files.list", valid_folder.id),
                                           listed.requests)
               /\ files' = listed.files
               /\ didx' = 1
               /\ pc' = "fetch"
               /\ UNCHANGED exc
  /\ UNCHANGED <<drive, localFs, posts, run, DRIVE_FOLDER_ID, folders, idx,
                 valid_folder>>
  /\ UNCHANGED tweetVars

FetchOutcomes == {"ok", "metadata_failed", "open_failed", "media_failed"}

\* what the except clause of download_file_from_drive does when the try block
\* failed at the given point: print(f"... {file_id} ({file_name}): {e}").
\* file_name is assigned on line 144, after the metadata request of line 142;
\* when that request raised, the name is unbound and the print itself raises
\* UnboundLocalError, which nothing catches.
HandlerRaises(outcome) == outcome = "metadata_failed"

\* Lines 133-135 and download_file_from_drive (139-181): one iteration of the
\* for loop of download_drive_folder, or its end.
Fetch ==
  /\ pc = "fetch"
  /\ IF didx > Len(files)
     THEN /\ pc' = "tweet"
          /\ UNCHANGED <<localFs, didx, calls, exc>>
     ELSE \E outcome \in FetchOutcomes :
            LET file == files[didx]
                dir == valid_folder.name
                dest == DestinationName(file.name, file.mimeType)
                meta == Call("files.get", file.id)
                media == Call("media", file.id)
            IN /\ calls' = CASE outcome = "metadata_failed" -> Append(calls, meta)
                             [] outcome = "open_failed" -> Append(calls, meta)
                             [] OTHER -> calls \o <<meta, media>>
               /\ localFs' =
                    CASE outcome = "ok" ->
                           [localFs EXCEPT ![dir] = WriteFile(@,
                              LocalFile(dest, file.id, valid_folder.id, run, TRUE))]
                      [] outcome = "media_failed" ->
                           [localFs EXCEPT ![dir] = WriteFile(@,
                              LocalFile(dest, file.id, valid_folder.id, run, FALSE))]
                      [] OTHER -> localFs
               /\ IF outcome # "ok" /\ HandlerRaises(outcome)
                  THEN /\ exc' = "UnboundLocalError"
                       /\ pc' = "crashed"
                       /\ UNCHANGED didx
                  ELSE /\ didx' = didx + 1
                       /\ UNCHANGED <<exc, pc>>
  /\ UNCHANGED <<drive, posts, run, DRIVE_FOLDER_ID, folders, idx, valid_folder,
                 files>>
  /\ UNCHANGED tweetVars

\* text="... sapphic recommendations ..." of create_tweet (decorations left out)
Caption ==
  <<"s", "a", "p", "p", "h", "i", "c", " ", "r", "e", "c", "o", "m", "m", "e",
    "n", "d", "a", "t", "i", "o", "n", "s">>

TweetOutcomes ==
  {"ok", "TooManyRequests", "upload_failed", "metadata_failed", "create_tweet_failed"}

\* the calls of the try block of tweet_images_from_folder up to the one that
\* raises
TweetCalls(image, alt, outcome) ==
  LET upload == Call("media_upload", image)
      metadata == Call("create_media_metadata", alt)
      tweet == Call("create_tweet", Caption)
  IN CASE outcome \in {"TooManyRequests", "upload_failed"} -> <<upload>>
       [] outcome = "metadata_failed" -> <<upload, metadata>>
       [] OTHER -> <<upload, metadata, tweet>>

\* Lines 223 and 198-215, tweet_images_from_folder(local_folder); the result
\* is dropped by tweet_random_images, which then returns.
Tweet ==
  /\ pc = "tweet"
  /\ LET dir == localFs[valid_folder.name]
         images == {f \in dir : IsImage(f.name)}
         descriptions == {f \in dir : IsText(f.name)}
     IN IF images = {} \/ descriptions = {}
        THEN /\ tweet_result' = "False"
             /\ UNCHANGED <<selected_image, description_file, alt_text, full_text,
                            upload_signal, posts, calls>>
        ELSE \E image \in images, description \in descriptions,
                outcome \in TweetOutcomes :
               \E parsed \in {get_alt_text_from_description(text) :
                                text \in IF description.complete THEN Contents
                                         ELSE {<<>>}} :
                    /\ selected_image' = image
                    /\ description_file' = description
                    /\ alt_text' = parsed.alt
                    /\ full_text' = parsed.full
                    /\ upload_signal' =
                         IF outcome \in {"TooManyRequests", "upload_failed"}
                         THEN outcome ELSE "ok"
                    /\ calls' = calls \o TweetCalls(image, parsed.alt, outcome)
                    /\ IF outcome = "ok"
                       THEN /\ posts' = Append(posts,
                                 [id |-> Len(posts) + 1, text |-> Caption,
                                  media |-> image, alt |-> parsed.alt,
                                  in_reply_to |-> 0])
                            /\ tweet_result' = "True"
                       ELSE /\ tweet_result' = "False"
                            /\ UNCHANGED posts
  /\ pc' = "done"
  /\ UNCHANGED <<drive, localFs, run, DRIVE_FOLDER_ID, folders, idx, valid_folder,
                 files, didx, exc>>

\* The scheduler starts the script again: a new process, the same
\* ./GLRECS_temp.
NextRun ==
  /\ pc \in {"done", "crashed", "exit1"}
  /\ run < MaxRuns
  /\ run' = run + 1
  /\ FreshRun
  /\ UNCHANGED <<drive, localFs>>

\* one invocation of the script
Next ==
  \/ ModuleInit
  \/ ListFolders
  \/ Shuffle
  \/ Validate
  \/ DownloadList
  \/ Fetch
  \/ Tweet

Spec == Init /\ [][Next]_vars

\* Successive invocations over the same ./GLRECS_temp, on a Drive whose
\* folders each hold exactly one image and one text file.
InitRuns == InitOn(UsableFolderStates, MaxFolders)

NextRuns == Next \/ NextRun

SpecRuns == InitRuns /\ [][NextRuns]_vars

\* One invocation on a Drive with at most one subfolder: every name of the
\* catalog meets both classifications.
InitOneFolder == InitOn(FolderStates, 1)

SpecOneFolder == InitOneFolder /\ [][Next]_vars

\* --------------------------------------------------------------- properties
\* the folder was examined or attempted in this invocation: its files were
\* requested
Tried(folder_id) ==
  \E k \in 1..Len(calls) : calls[k].op = "files.list" /\ calls[k].arg = folder_id

\* C1: an invocation whose publish step reported failure ends without a post
\* only after every listed folder has been tried.
C1_RetryUntilExhausted ==
  (pc = "done" /\ tweet_result = "False" /\ posts = <<>>)
    => \A i \in 1..Len(folders) : Tried(folders[i].id)

\* C2: a publish operation that reports success has created, after the
\* primary post, a second post replying to it that holds the full description.
C2_ReplyHoldsFullText ==
  tweet_result = "True"
    => \E i, j \in 1..Len(posts) :
         /\ i < j
         /\ posts[i].in_reply_to = 0
         /\ posts[j].in_reply_to = posts[i].id
         /\ posts[j].text = full_text

\* C3: when the media upload signals too many requests, the publish operation
\* has paused (slept) before it reports failure, and it created no post.
C3_RateLimitPauses ==
  (pc = "done" /\ upload_signal = "TooManyRequests")
    => /\ tweet_result = "False"
       /\ posts = <<>>
       /\ \E k \in 1..Len(calls) : calls[k].op = "sleep"

\* C4: no failure of a file fetch ends the run: an invocation never stops on
\* an exception while its last external call is a fetch's metadata lookup or
\* media request.
C4_FetchNeverRaises ==
  pc = "crashed" => calls[Len(calls)].op \notin {"files.get", "media"}

\* C5: with DRIVE_FOLDER_ID absent the run makes no storage-API or post-API
\* call.
C5_MissingFolderIdAborts ==
  (pc # "start" /\ DRIVE_FOLDER_ID = None) => calls = <<>>

\* the files a folder of the Drive really holds
ChildNames(i) == {Catalog[drive[i].children[k]].name : k \in 1..Len(drive[i].children)}

\* C6: the selected folder never holds only images or only description files,
\* and None is returned only when no listed folder holds both an image and a
\* description file.
C6_ValidationAcceptsUsable ==
  /\ valid_folder # NoFolder
       => /\ \E n \in ChildNames(valid_folder.id) : IsImage(n)
          /\ \E n \in ChildNames(valid_folder.id) : IsText(n)
  /\ (pc = "done" /\ valid_folder = NoFolder)
       => \A i \in 1..Len(folders) :
            ~ /\ \E n \in ChildNames(folders[i].id) : IsImage(n)
              /\ \E n \in ChildNames(folders[i].id) : IsText(n)

\* the example names of the claim, as the local and remote files carry them
ImageExamples == {Catalog[1].name}
DescripTxt == Catalog[2].name
DescriptionDocx == Catalog[3].name
NotdescTxt == Catalog[4].name

\* the rule of the claim: the lowercased name starts with the description
\* prefix and ends with a document extension
PrefixedDescription(name) ==
  /\ StartsWith(Lower(name), <<"d", "e", "s", "c">>)
  /\ EndsWithAny(Lower(name), supported_text_extensions)

\* Both places that classify agree with a given notion of description file:
\* validation accepts a listing exactly when it holds an image and a
\* description, and publish goes ahead exactly when the directory holds an
\* image and a description, and then reads a description.
ClassifiesBy(IsDesc(_)) ==
  LET usable(names) == /\ \E n \in names : n \in ImageExamples
                       /\ \E n \in names : IsDesc(n)
      listed == {files[k].name : k \in 1..Len(files)}
      local == IF valid_folder = NoFolder THEN {}
               ELSE {f.name : f \in localFs[valid_folder.name]}
  IN /\ pc = "download" => usable(listed)
     /\ (pc = "validate" /\ idx > 1) => ~usable(listed)
     /\ (pc = "done" /\ valid_folder # NoFolder)
          => /\ (description_file # NoFile) <=> usable(local)
             /\ description_file # NoFile => IsDesc(description_file.name)

\* C7 as stated: only names with the description prefix and a document
\* extension count (DESCRIP.TXT, description.docx; not notdesc.txt).
C7_PrefixRequired == ClassifiesBy(PrefixedDescription)

AnyCaseDocument(name) == name \in {DescripTxt, DescriptionDocx, NotdescTxt}

\* C7 amended: a name counts as a description file when its lowercased form
\* ends with a document extension, no prefix required: DESCRIP.TXT,
\* description.docx and notdesc.txt all count, in validation and in publish.
C7_DocumentExtensionOnly == ClassifiesBy(AnyCaseDocument)

\* a folder holding just IMAGE.PNG and notdesc.txt was accepted and
\* notdesc.txt was read as the description of a successful publish
C7_Witness ==
  /\ pc = "done"
  /\ tweet_result = "True"
  /\ {files[k].name : k \in 1..Len(files)} = ImageExamples \cup {NotdescTxt}
  /\ description_file.name = NotdescTxt

\* C8: no media upload or alt-text attachment is made with an empty excerpt.
C8_AltTextNonEmpty ==
  /\ selected_image # NoFile => alt_text # <<>>
  /\ \A k \in 1..Len(calls) :
       calls[k].op = "create_media_metadata" => calls[k].arg # <<>>

\* C9: the listing list_drive_files returned for the selected folder holds
\* every child of the folder exactly once.
C9_ListsEveryChild ==
  pc \in {"fetch", "tweet"}
    => [k \in 1..Len(files) |-> files[k].id] = drive[valid_folder.id].children

\* C10: the image uploaded and the description read were downloaded by this
\* invocation from the folder it selected.
C10_PublishesOwnDownloads ==
  selected_image # NoFile
    => /\ selected_image.run = run
       /\ selected_image.folder = valid_folder.id
       /\ description_file.run = run
       /\ description_file.folder = valid_folder.id

====
